---- MODULE Spec2Model ----
(***************************************************************************)
(* The versioned document model (model/document.ts) and the TestQueryCache *)
(* wrapper (test/unit/local/test_query_cache.ts) around the QueryCache.    *)
(***************************************************************************)
EXTENDS Integers, Sequences, FiniteSets, TLC

(***************************************************************************)
(* Bounds.                                                                 *)
(***************************************************************************)
NumKeys == 2
MaxVersion == 2
MaxFieldValue == 2
MaxTargetId == 2
MaxSequenceNumber == 1
MaxKeysLen == 2

\* SnapshotVersion.MIN, the distinguished minimum version.
MIN == 0

DocumentKeys == 1..NumKeys
SnapshotVersions == MIN..MaxVersion
FieldPaths == {"a", "b"}
FieldValues == 1..MaxFieldValue
Queries == {"q1", "q2"}
ResumeTokens == {"", "tok"}
TargetIds == 1..MaxTargetId

\* JavaScript values a call can return besides a number: a boolean, or null.
jsBoolean(b) == [type |-> "boolean", value |-> b]
Null == [type |-> "null"]
Undefined == [type |-> "undefined"]
truthy(v) == v.type = "boolean" /\ v.value

(***************************************************************************)
(* model/document.ts                                                       *)
(***************************************************************************)

\* ObjectValue: the document body, a map from the field paths that have a
\* value to that value.
ObjectValues == UNION {[S -> FieldValues] : S \in SUBSET FieldPaths}

Documents ==
  [kind : {"Document"}, key : DocumentKeys, remoteVersion : SnapshotVersions,
   commitVersion : SnapshotVersions, data : ObjectValues,
   hasLocalMutations : BOOLEAN]

NoDocuments ==
  [kind : {"NoDocument"}, key : DocumentKeys, remoteVersion : SnapshotVersions,
   commitVersion : SnapshotVersions]

MaybeDocuments == Documents \cup NoDocuments

\* compareTo of SnapshotVersion and FieldValue, and DocumentKey.comparator:
\* negative, zero or positive.
compareTo(a, b) == IF a < b THEN -1 ELSE IF a > b THEN 1 ELSE 0

\* other instanceof Document
instanceofDocument(other) == other # Null /\ other.kind = "Document"

compareByKey(d1, d2) == compareTo(d1.key, d2.key)

\* Document.field: the FieldValue at path, or undefined.
field(d, path) ==
  IF path \in DOMAIN d.data
    THEN [type |-> "FieldValue", value |-> d.data[path]]
    ELSE Undefined

hasPendingWrites_strictBaseline(d, baseSnapshotVersion) ==
  IF d.hasLocalMutations
    THEN TRUE
    ELSE IF baseSnapshotVersion # MIN
            /\ compareTo(d.commitVersion, baseSnapshotVersion) > 0
           THEN compareTo(d.commitVersion, d.remoteVersion) > 0
           ELSE FALSE

hasPendingWrites(d, baseSnapshotVersion) ==
  IF d.hasLocalMutations
    THEN TRUE
    ELSE IF baseSnapshotVersion # MIN
            /\ compareTo(d.commitVersion, baseSnapshotVersion) >= 0
           THEN compareTo(d.commitVersion, d.remoteVersion) > 0
           ELSE FALSE

Document_isEqual(this, other) ==
  jsBoolean(/\ instanceofDocument(other)
            /\ this.key = other.key
            /\ this.remoteVersion = other.remoteVersion
            /\ this.commitVersion = other.commitVersion
            /\ this.data = other.data
            /\ this.hasLocalMutations = other.hasLocalMutations)

\* `other && ...`: a falsy other is itself the value of the expression;
\* otherwise the three comparisons decide, whatever the variant of other.
NoDocument_isEqual(this, other) ==
  IF other = Null
    THEN Null
    ELSE jsBoolean(/\ other.remoteVersion = this.remoteVersion
                   /\ other.commitVersion = this.commitVersion
                   /\ other.key = this.key)

\* a.isEqual(b), dispatched on the variant of a.
isEqual(a, b) ==
  IF a.kind = "Document" THEN Document_isEqual(a, b) ELSE NoDocument_isEqual(a, b)

\* fail(msg) throws: the call ends with an error and returns no number.
fail(msg) == [tag |-> "fail", message |-> msg]
returned(v) == [tag |-> "return", value |-> v]

compareByField_sentinel(path, d1, d2) ==
  LET v1 == field(d1, path)
      v2 == field(d2, path)
  IN  IF v1 # Undefined /\ v2 # Undefined
        THEN returned(compareTo(v1.value, v2.value))
        ELSE returned(0)

compareByField(path, d1, d2) ==
  LET v1 == field(d1, path)
      v2 == field(d2, path)
  IN  IF v1 # Undefined /\ v2 # Undefined
        THEN returned(compareTo(v1.value, v2.value))
        ELSE fail("Trying to compare documents on fields that don't exist")

(***************************************************************************)
(* The QueryCache behind the wrapper (local/query_cache), as section 4.2   *)
(* of the specification describes it.  Every operation maps the cache      *)
(* state c to the new cache state and the value the call yields.           *)
(***************************************************************************)

QueryData == [query : Queries, targetId : TargetIds, resumeToken : ResumeTokens]

EmptyCache ==
  [queries |-> {}, references |-> {}, highestTargetId |-> 0,
   highestListenSequenceNumber |-> 0, lastRemoteSnapshotVersion |-> MIN]

outcome(c, v) == [cache |-> c, value |-> v]

\* A target is currently tracked when its QueryData record is present.
isTracked(c, targetId) == \E r \in c.queries : r.targetId = targetId

matchingKeys(c, targetId) == {p[1] : p \in {x \in c.references : x[2] = targetId}}

QueryCache_addQueryData(c, queryData) ==
  IF isTracked(c, queryData.targetId)
    THEN outcome(c, fail("target id already has a record"))
    ELSE outcome([c EXCEPT !.queries = @ \cup {queryData},
                           !.references = {p \in @ : p[2] # queryData.targetId}],
                 returned(Undefined))

QueryCache_updateQueryData(c, queryData) ==
  outcome([c EXCEPT !.queries =
             {r \in @ : r.targetId # queryData.targetId} \cup {queryData}],
          returned(Undefined))

QueryCache_removeQueryData(c, queryData) ==
  outcome([c EXCEPT !.queries = {r \in @ : r.targetId # queryData.targetId}],
          returned(Undefined))

QueryCache_getQueryData(c, query) ==
  outcome(c, returned(IF \E r \in c.queries : r.query = query
                        THEN CHOOSE r \in c.queries : r.query = query
                        ELSE Null))

QueryCache_getQueryCount(c) == outcome(c, returned(Cardinality(c.queries)))

QueryCache_getLastRemoteSnapshotVersion(c) ==
  outcome(c, returned(c.lastRemoteSnapshotVersion))

QueryCache_allocateTargetId_notPersisted(c) ==
  outcome(c, returned(c.highestTargetId + 1))

QueryCache_allocateTargetId(c) ==
  outcome([c EXCEPT !.highestTargetId = @ + 1], returned(c.highestTargetId + 1))

QueryCache_addMatchingKeys(c, keys, targetId) ==
  outcome([c EXCEPT !.references = @ \cup {<<k, targetId>> : k \in keys}],
          returned(Undefined))

QueryCache_removeMatchingKeys(c, keys, targetId) ==
  outcome([c EXCEPT !.references = @ \ {<<k, targetId>> : k \in keys}],
          returned(Undefined))

QueryCache_getMatchingKeysForTargetId(c, targetId) ==
  outcome(c, returned(matchingKeys(c, targetId)))

QueryCache_removeMatchingKeysForTargetId(c, targetId) ==
  outcome([c EXCEPT !.references = {p \in @ : p[2] # targetId}],
          returned(Undefined))

QueryCache_containsKey_anyTarget(c, key) ==
  outcome(c, returned(\E p \in c.references : p[1] = key))

QueryCache_containsKey(c, key) ==
  outcome(c, returned(\E p \in c.references : p[1] = key /\ isTracked(c, p[2])))

\* lastRemoteSnapshotVersion is the optional argument: <<>> when the caller
\* leaves it out, <<v>> when the caller supplies v.
QueryCache_setTargetsMetadata(c, highestListenSequenceNumber, lastRemoteSnapshotVersion) ==
  outcome([c EXCEPT !.highestListenSequenceNumber = highestListenSequenceNumber,
                    !.lastRemoteSnapshotVersion =
                       IF lastRemoteSnapshotVersion # <<>>
                         THEN lastRemoteSnapshotVersion[1]
                         ELSE @],
          returned(Undefined))

(***************************************************************************)
(* State.                                                                  *)
(***************************************************************************)
VARIABLES
  cache,         \* the QueryCache behind the wrapper
  lastCall,      \* the TestQueryCache method called last, with its arguments
  transactions,  \* the transactions that call opened, each with its cache calls
  result,        \* what that call's promise settled with
  allocated,     \* every id allocateTargetId has returned, oldest first
  d1, d2,        \* the documents at hand
  out            \* the document-model call made last, with what it yielded

cacheVars == <<cache, lastCall, transactions, result, allocated>>
docVars == <<d1, d2, out>>
vars == <<cache, lastCall, transactions, result, allocated, d1, d2, out>>

(***************************************************************************)
(* test/unit/local/test_query_cache.ts                                     *)
(***************************************************************************)

\* Persistence.runTransaction(action, <flag>, operation): opens one
\* transaction under the label, runs the operation inside it and settles with
\* the operation's outcome; the cache keeps what the operation wrote.
runTransaction(action, flag, call, r) ==
  /\ transactions' = <<[label |-> action, readWrite |-> flag, calls |-> <<call>>]>>
  /\ cache' = r.cache
  /\ result' = r.value

called(method, args) == lastCall' = [method |-> method, args |-> args]

\* let set = documentKeySet(); for (const key of keys) set = set.add(key);
\* set.add(key) without the assignment: the persistent set stays empty.
keySetOf_unassigned(keys) == {}

RECURSIVE keySetOf(_)
keySetOf(keys) ==
  IF keys = <<>>
    THEN {}
    ELSE keySetOf(SubSeq(keys, 1, Len(keys) - 1)) \cup {keys[Len(keys)]}

\* keySet.forEach(key => result.push(key)): the keys in key order.
RECURSIVE toArray(_)
toArray(keySet) ==
  IF keySet = {}
    THEN <<>>
    ELSE LET first == CHOOSE k \in keySet : \A o \in keySet : compareTo(k, o) <= 0
         IN  <<first>> \o toArray(keySet \ {first})

KeyArrays == UNION {[1..n -> DocumentKeys] : n \in 0..MaxKeysLen}

addQueryData(queryData) ==
  /\ called("addQueryData", <<queryData>>)
  /\ runTransaction("addQueryData", FALSE, "addQueryData",
                    QueryCache_addQueryData(cache, queryData))
  /\ UNCHANGED allocated

updateQueryData(queryData) ==
  /\ called("updateQueryData", <<queryData>>)
  /\ runTransaction("updateQueryData", TRUE, "updateQueryData",
                    QueryCache_updateQueryData(cache, queryData))
  /\ UNCHANGED allocated

getQueryCount ==
  /\ called("getQueryCount", <<>>)
  /\ runTransaction("getQueryCount", FALSE, "getQueryCount",
                    QueryCache_getQueryCount(cache))
  /\ UNCHANGED allocated

removeQueryData_callsAdd(queryData) ==
  /\ called("removeQueryData", <<queryData>>)
  /\ runTransaction("addQueryData", TRUE, "addQueryData",
                    QueryCache_addQueryData(cache, queryData))
  /\ UNCHANGED allocated

removeQueryData_cascade(queryData) ==
  /\ called("removeQueryData", <<queryData>>)
  /\ runTransaction("addQueryData", TRUE, "removeQueryData",
                    QueryCache_removeMatchingKeysForTargetId(
                      QueryCache_removeQueryData(cache, queryData).cache,
                      queryData.targetId))
  /\ UNCHANGED allocated

removeQueryData(queryData) ==
  /\ called("removeQueryData", <<queryData>>)
  /\ runTransaction("addQueryData", TRUE, "removeQueryData",
                    QueryCache_removeQueryData(cache, queryData))
  /\ UNCHANGED allocated

getQueryData(query) ==
  /\ called("getQueryData", <<query>>)
  /\ runTransaction("getQueryData", FALSE, "getQueryData",
                    QueryCache_getQueryData(cache, query))
  /\ UNCHANGED allocated

getLastRemoteSnapshotVersion ==
  /\ called("getLastRemoteSnapshotVersion", <<>>)
  /\ runTransaction("getLastRemoteSnapshotVersion", FALSE,
                    "getLastRemoteSnapshotVersion",
                    QueryCache_getLastRemoteSnapshotVersion(cache))
  /\ UNCHANGED allocated

allocateTargetId ==
  LET r == QueryCache_allocateTargetId(cache)
  IN  /\ called("allocateTargetId", <<>>)
      /\ runTransaction("allocateTargetId", FALSE, "allocateTargetId", r)
      /\ allocated' = Append(allocated, r.value.value)

addMatchingKeys(keys, targetId) ==
  /\ called("addMatchingKeys", <<keys, targetId>>)
  /\ runTransaction("addMatchingKeys", TRUE, "addMatchingKeys",
                    QueryCache_addMatchingKeys(cache, keySetOf(keys), targetId))
  /\ UNCHANGED allocated

removeMatchingKeys(keys, targetId) ==
  /\ called("removeMatchingKeys", <<keys, targetId>>)
  /\ runTransaction("removeMatchingKeys", TRUE, "removeMatchingKeys",
                    QueryCache_removeMatchingKeys(cache, keySetOf(keys), targetId))
  /\ UNCHANGED allocated

getMatchingKeysForTargetId(targetId) ==
  LET r == QueryCache_getMatchingKeysForTargetId(cache, targetId)
  IN  /\ called("getMatchingKeysForTargetId", <<targetId>>)
      /\ runTransaction("getMatchingKeysForTargetId", FALSE,
                        "getMatchingKeysForTargetId",
                        outcome(r.cache, returned(toArray(r.value.value))))
      /\ UNCHANGED allocated

removeMatchingKeysForTargetId(targetId) ==
  /\ called("removeMatchingKeysForTargetId", <<targetId>>)
  /\ runTransaction("removeMatchingKeysForTargetId", TRUE,
                    "removeMatchingKeysForTargetId",
                    QueryCache_removeMatchingKeysForTargetId(cache, targetId))
  /\ UNCHANGED allocated

containsKey(key) ==
  /\ called("containsKey", <<key>>)
  /\ runTransaction("containsKey", FALSE, "containsKey",
                    QueryCache_containsKey(cache, key))
  /\ UNCHANGED allocated

setTargetsMetadata_dropsVersion(highestListenSequenceNumber, lastRemoteSnapshotVersion) ==
  /\ called("setTargetsMetadata",
            <<highestListenSequenceNumber, lastRemoteSnapshotVersion>>)
  /\ runTransaction("setTargetsMetadata", TRUE, "setTargetsMetadata",
                    QueryCache_setTargetsMetadata(cache, highestListenSequenceNumber,
                                                  <<>>))
  /\ UNCHANGED allocated

setTargetsMetadata(highestListenSequenceNumber, lastRemoteSnapshotVersion) ==
  /\ called("setTargetsMetadata",
            <<highestListenSequenceNumber, lastRemoteSnapshotVersion>>)
  /\ runTransaction("setTargetsMetadata", TRUE, "setTargetsMetadata",
                    QueryCache_setTargetsMetadata(cache, highestListenSequenceNumber,
                                                  lastRemoteSnapshotVersion))
  /\ UNCHANGED allocated

(***************************************************************************)
(* The callers of the wrapper.  A query is listened to under one target,   *)
(* so addQueryData is called for a query that is not listened to yet;      *)
(* updateQueryData, removeQueryData, addMatchingKeys and removeMatchingKeys*)
(* are called for what the cache holds; listen sequence numbers only grow. *)
(***************************************************************************)
isListening(query) == \E r \in cache.queries : r.query = query

AddQueryData ==
  \E queryData \in QueryData :
    /\ ~isListening(queryData.query)
    /\ addQueryData(queryData)
    /\ UNCHANGED docVars

UpdateQueryData ==
  \E queryData \in QueryData :
    /\ \E r \in cache.queries :
         r.targetId = queryData.targetId /\ r.query = queryData.query
    /\ updateQueryData(queryData)
    /\ UNCHANGED docVars

GetQueryCount == getQueryCount /\ UNCHANGED docVars

RemoveQueryData ==
  \E queryData \in cache.queries : removeQueryData(queryData) /\ UNCHANGED docVars

GetQueryData == \E query \in Queries : getQueryData(query) /\ UNCHANGED docVars

GetLastRemoteSnapshotVersion == getLastRemoteSnapshotVersion /\ UNCHANGED docVars

AllocateTargetId ==
  /\ cache.highestTargetId < MaxTargetId
  /\ allocateTargetId
  /\ UNCHANGED docVars

AddMatchingKeys ==
  \E keys \in KeyArrays, targetId \in TargetIds :
    /\ isTracked(cache, targetId)
    /\ addMatchingKeys(keys, targetId)
    /\ UNCHANGED docVars

RemoveMatchingKeys ==
  \E keys \in KeyArrays, targetId \in TargetIds :
    /\ isTracked(cache, targetId)
    /\ removeMatchingKeys(keys, targetId)
    /\ UNCHANGED docVars

GetMatchingKeysForTargetId ==
  \E targetId \in TargetIds : getMatchingKeysForTargetId(targetId) /\ UNCHANGED docVars

RemoveMatchingKeysForTargetId ==
  \E targetId \in TargetIds :
    removeMatchingKeysForTargetId(targetId) /\ UNCHANGED docVars

ContainsKey == \E key \in DocumentKeys : containsKey(key) /\ UNCHANGED docVars

SetTargetsMetadata ==
  \E n \in 0..MaxSequenceNumber,
     version \in {<<>>} \cup {<<v>> : v \in SnapshotVersions} :
    /\ n >= cache.highestListenSequenceNumber
    /\ setTargetsMetadata(n, version)
    /\ UNCHANGED docVars

NoCall == [method |-> "none", args |-> <<>>]
NoDocCall == [op |-> "none"]

Init ==
  /\ cache = EmptyCache
  /\ lastCall = NoCall
  /\ transactions = <<>>
  /\ result = returned(Undefined)
  /\ allocated = <<>>
  /\ d1 = Null
  /\ d2 = Null
  /\ out = NoDocCall

Next ==
  \/ AddQueryData
  \/ UpdateQueryData
  \/ GetQueryCount
  \/ RemoveQueryData
  \/ GetQueryData
  \/ GetLastRemoteSnapshotVersion
  \/ AllocateTargetId
  \/ AddMatchingKeys
  \/ RemoveMatchingKeys
  \/ GetMatchingKeysForTargetId
  \/ RemoveMatchingKeysForTargetId
  \/ ContainsKey
  \/ SetTargetsMetadata

Spec == Init /\ [][Next]_vars

(***************************************************************************)
(* The document model applied to the documents at hand.                    *)
(***************************************************************************)
docCalled(op, args, value) == out' = [op |-> op, args |-> args, value |-> value]

HasPendingWrites ==
  \E baseSnapshotVersion \in SnapshotVersions :
    /\ d1.kind = "Document"
    /\ docCalled("hasPendingWrites", <<baseSnapshotVersion>>,
                 hasPendingWrites(d1, baseSnapshotVersion))
    /\ UNCHANGED <<d1, d2>>
    /\ UNCHANGED cacheVars

CompareByField ==
  \E path \in FieldPaths :
    /\ d1.kind = "Document"
    /\ d2.kind = "Document"
    /\ docCalled("compareByField", <<path>>, compareByField(path, d1, d2))
    /\ UNCHANGED <<d1, d2>>
    /\ UNCHANGED cacheVars

IsEqual ==
  /\ docCalled("isEqual", <<>>, isEqual(d1, d2))
  /\ UNCHANGED <<d1, d2>>
  /\ UNCHANGED cacheVars

InitCacheIdle ==
  /\ cache = EmptyCache
  /\ lastCall = NoCall
  /\ transactions = <<>>
  /\ result = returned(Undefined)
  /\ allocated = <<>>

\* Two documents of one result set: any keys and bodies, at one pair of
\* versions.
InitDoc ==
  /\ InitCacheIdle
  /\ d1 \in Documents
  /\ d2 \in {d \in Documents : /\ d.remoteVersion = d1.remoteVersion
                               /\ d.commitVersion = d1.commitVersion
                               /\ d.hasLocalMutations = d1.hasLocalMutations}
  /\ out = NoDocCall

NextDoc == HasPendingWrites \/ CompareByField

SpecDoc == InitDoc /\ [][NextDoc]_vars

\* Any two lookup results; the argument of isEqual may also be null.
InitEqual ==
  /\ InitCacheIdle
  /\ d1 \in MaybeDocuments
  /\ d2 \in MaybeDocuments \cup {Null}
  /\ out = NoDocCall

NextEqual == IsEqual

SpecEqual == InitEqual /\ [][NextEqual]_vars

(***************************************************************************)
(* Properties of the document model.                                       *)
(***************************************************************************)

\* C6: d.hasPendingWrites(v) is true when d has local mutations; otherwise,
\* when v is not MIN and commitVersion >= v, it is commitVersion >
\* remoteVersion; otherwise it is false.
C6_HasPendingWrites ==
  out.op = "hasPendingWrites" =>
    LET v == out.args[1]
    IN  /\ out.value =
             IF d1.hasLocalMutations
               THEN TRUE
               ELSE IF v # MIN /\ d1.commitVersion >= v
                      THEN d1.commitVersion > d1.remoteVersion
                      ELSE FALSE
        /\ d1.hasLocalMutations => out.value
        /\ ~d1.hasLocalMutations /\ (v = MIN \/ d1.commitVersion < v) => ~out.value

\* A document without local mutations, committed exactly at the baseline and
\* ahead of the remote version, has pending writes.
C6_Witness ==
  /\ out.op = "hasPendingWrites"
  /\ ~d1.hasLocalMutations
  /\ out.args[1] # MIN
  /\ d1.commitVersion = out.args[1]
  /\ d1.commitVersion > d1.remoteVersion
  /\ out.value

\* C7: isEqual is reflexive, symmetric and variant-sensitive: a.isEqual(b)
\* holds exactly when b.isEqual(a) holds, and never between a Document and a
\* NoDocument, whichever is the receiver.
C7_IsEqualSymmetric ==
  out.op = "isEqual" /\ d2 # Null =>
    /\ truthy(out.value) <=> truthy(isEqual(d2, d1))
    /\ d1.kind # d2.kind => ~truthy(out.value)
    /\ d1 = d2 => truthy(out.value)

\* C9: compareByField fails fatally when either document has no value at the
\* path, and otherwise returns the comparison of the two field values.
C9_CompareByFieldFails ==
  out.op = "compareByField" =>
    LET path == out.args[1]
    IN  IF path \in DOMAIN d1.data /\ path \in DOMAIN d2.data
          THEN out.value =
                 returned(IF d1.data[path] < d2.data[path] THEN -1
                          ELSE IF d1.data[path] > d2.data[path] THEN 1 ELSE 0)
          ELSE out.value.tag = "fail"

\* Only the second document lacks the field, and the comparison failed.
C9_Witness ==
  /\ out.op = "compareByField"
  /\ out.args[1] \in DOMAIN d1.data
  /\ out.args[1] \notin DOMAIN d2.data
  /\ out.value.tag = "fail"

(***************************************************************************)
(* Properties of the query cache behind the wrapper.                       *)
(***************************************************************************)
keysOf(array) == {array[i] : i \in DOMAIN array}
storedQueryData(c, query) == QueryCache_getQueryData(c, query).value.value
queryCount(c) == QueryCache_getQueryCount(c).value.value
matchedAsReturned(c, targetId) ==
  toArray(QueryCache_getMatchingKeysForTargetId(c, targetId).value.value)

\* C1: every id allocateTargetId returns is strictly greater than every id
\* it returned before, whatever was called in between.
C1_AllocateStrictlyIncreasing ==
  \A i, j \in DOMAIN allocated : i < j => allocated[i] < allocated[j]

\* Two ids were allocated, the second while a target was tracked.
C1_Witness ==
  /\ lastCall.method = "allocateTargetId"
  /\ Len(allocated) >= 2
  /\ result = returned(allocated[Len(allocated)])
  /\ cache.queries # {}

\* C2: containsKey(k) returns true exactly when k is in the matched set of a
\* target whose QueryData record is present.
C2_ContainsKeyIffTrackedMatch ==
  lastCall.method = "containsKey" =>
    result = returned(\E t \in TargetIds :
                        /\ isTracked(cache, t)
                        /\ lastCall.args[1] \in matchingKeys(cache, t))

\* The key is still indexed under a target whose record is gone, and under no
\* tracked target: containsKey returned false.
C2_Witness ==
  /\ lastCall.method = "containsKey"
  /\ result = returned(FALSE)
  /\ \E t \in TargetIds : lastCall.args[1] \in matchingKeys(cache, t)
  /\ cache.queries # {}

C4_RemoveQueryDataKeepsKeys ==
  [][/\ lastCall'.method = "removeQueryData" =>
          \A t \in TargetIds :
            matchedAsReturned(cache', t) = matchedAsReturned(cache, t)
     /\ lastCall'.method = "removeMatchingKeysForTargetId" =>
          matchedAsReturned(cache', lastCall'.args[1]) = <<>>]_vars

\* The record of a target is gone and its matched keys are still there.
C4_Witness ==
  /\ lastCall.method = "removeQueryData"
  /\ ~isTracked(cache, lastCall.args[1].targetId)
  /\ matchedAsReturned(cache, lastCall.args[1].targetId) # <<>>

\* C5: addMatchingKeys(K, t) makes the matched set of t its earlier value
\* united with K and leaves the matched sets of the other targets alone.
C5_AddMatchingKeysUnion ==
  [][lastCall'.method = "addMatchingKeys" =>
       \A t \in TargetIds :
         matchingKeys(cache', t) =
           IF t = lastCall'.args[2]
             THEN matchingKeys(cache, t) \cup keysOf(lastCall'.args[1])
             ELSE matchingKeys(cache, t)]_vars

\* A key was added again to a set that already held it and one more key.
C5_Witness ==
  /\ lastCall.method = "addMatchingKeys"
  /\ Len(lastCall.args[1]) = 1
  /\ Cardinality(matchingKeys(cache, lastCall.args[2])) = 2

\* C8: setTargetsMetadata without a version keeps lastRemoteSnapshotVersion,
\* with a version stores it, and never touches the records or the matched
\* keys.
C8_SetTargetsMetadataFrame ==
  [][lastCall'.method = "setTargetsMetadata" =>
       /\ QueryCache_getLastRemoteSnapshotVersion(cache').value.value =
            IF lastCall'.args[2] = <<>>
              THEN QueryCache_getLastRemoteSnapshotVersion(cache).value.value
              ELSE lastCall'.args[2][1]
       /\ cache'.queries = cache.queries
       /\ cache'.references = cache.references]_vars

\* A call without a version, made when a version other than MIN was stored
\* and a target with matched keys was tracked.
C8_Witness ==
  /\ lastCall.method = "setTargetsMetadata"
  /\ lastCall.args[2] = <<>>
  /\ cache.lastRemoteSnapshotVersion # MIN
  /\ cache.queries # {}
  /\ cache.references # {}

MutatingMethods ==
  {"addQueryData", "updateQueryData", "removeQueryData", "allocateTargetId",
   "addMatchingKeys", "removeMatchingKeys", "removeMatchingKeysForTargetId",
   "setTargetsMetadata"}

\* C10: every method opens exactly one transaction with exactly one cache
\* call in it, tagged read-write exactly when the method changes the cache.
C10_TransactionTagMatchesCall ==
  lastCall.method # "none" =>
    /\ Len(transactions) = 1
    /\ Len(transactions[1].calls) = 1
    /\ transactions[1].calls[1] = lastCall.method
    /\ transactions[1].readWrite = (lastCall.method \in MutatingMethods)

====
